---- MODULE Spec2Model ----
(***************************************************************************)
(* RC5 (vyorkin/rc5_test): the Word abstraction, key expansion, the block  *)
(* transform and the cipher facade, as a state machine over the calls a    *)
(* client of the crate can make.                                           *)
(*                                                                         *)
(* A word of the type parameter W (u16, u32, u64) is a sequence of BITS/16 *)
(* limbs of 16 bits, least significant first, so that all three widths are *)
(* modelled at their real width, with their wrap-around.  A byte is a      *)
(* number 0..255.  A call that unwinds (an `unwrap` on None, an index out  *)
(* of bounds) returns Panic.                                               *)
(***************************************************************************)
EXTENDS Integers, Sequences, FiniteSets, TLC

\* ------------------------------------------------------------------ bounds

\* Round counts 0..MaxRounds are enumerated (besides the nominal and the
\* boundary ones).
MaxRounds == 2
\* Key lengths 0..MaxKeyLen are enumerated (besides 16 and the boundary ones).
MaxKeyLen == 4
\* Buffers hold up to MaxBlocks blocks.
MaxBlocks == 2
\* encode/decode calls made on one cipher instance.
MaxCalls == 2
\* encode/decode are called on instances of up to MaxUsedRounds rounds.
MaxUsedRounds == 32

\* ------------------------------------------------------------- result values

Ok(v) == [tag |-> "ok", val |-> v]
Panic == [tag |-> "panic", val |-> <<>>]
Err(kind, n) == [tag |-> kind, val |-> <<n>>]
Some(v) == [tag |-> "some", val |-> v]
None == [tag |-> "none", val |-> <<>>]

\* A `for` loop over lo..hi (ascending), folding Body over the loop state, a
\* record with a tag: a body that unwinds (tag "panic") ends the loop.
\* The range is split in halves only to keep the evaluation depth logarithmic;
\* the bodies run in the order lo, lo+1, ..., hi.
RECURSIVE ForRange(_, _, _, _)
ForRange(Body(_, _), st, lo, hi) ==
    IF lo > hi THEN st
    ELSE IF lo = hi THEN Body(st, lo)
    ELSE LET mid == (lo + hi) \div 2
             left == ForRange(Body, st, lo, mid)
         IN  IF left.tag # "ok" THEN left
             ELSE ForRange(Body, left, mid + 1, hi)

\* The same loop over a reversed range: hi, hi-1, ..., lo.
ForRangeRev(Body(_, _), st, lo, hi) ==
    LET Flip(s, k) == Body(s, hi - (k - lo))
    IN  ForRange(Flip, st, lo, hi)

\* ------------------------------------------------------------- Word (word.rs)

Widths == {16, 32, 64}

BITS(W) == W
BYTES(W) == BITS(W) \div 8
ROUNDS(W) == CASE W = 16 -> 12 [] W = 32 -> 16 [] W = 64 -> 20

\* One limb holds 16 bits.
Limb == 2^16

\* The word of width W of a number n < 2^31.
WordOf(n, W) ==
    [i \in 1..(BITS(W) \div 16) |->
        IF i = 1 THEN n % Limb ELSE IF i = 2 THEN n \div Limb ELSE 0]

zero(W) == [i \in 1..(BITS(W) \div 16) |-> 0]

\* PrimInt: wrapping_add, wrapping_sub, bitxor, rotate_left, rotate_right.
RECURSIVE AddFrom(_, _, _, _)
AddFrom(x, y, i, carry) ==
    IF i > Len(x) THEN <<>>
    ELSE LET s == x[i] + y[i] + carry
         IN  <<s % Limb>> \o AddFrom(x, y, i + 1, s \div Limb)
wrapping_add(x, y) == AddFrom(x, y, 1, 0)

RECURSIVE SubFrom(_, _, _, _)
SubFrom(x, y, i, borrow) ==
    IF i > Len(x) THEN <<>>
    ELSE LET d == x[i] - y[i] - borrow
         IN  <<IF d < 0 THEN d + Limb ELSE d>>
                 \o SubFrom(x, y, i + 1, IF d < 0 THEN 1 ELSE 0)
wrapping_sub(x, y) == SubFrom(x, y, 1, 0)

\* Exclusive or of the low n bits of two numbers.
RECURSIVE XorBits(_, _, _)
XorBits(a, b, n) ==
    IF n = 0 THEN 0
    ELSE ((a + b) % 2) + 2 * XorBits(a \div 2, b \div 2, n - 1)
bitxor(x, y) == [i \in 1..Len(x) |-> XorBits(x[i], y[i], 16)]

\* x.rotate_left(n), n a u32: bit k of x moves to bit (k + n) mod BITS.
rotate_left(x, n) ==
    LET L == Len(x)
        k == n % (16 * L)
        d == k \div 16
        r == k % 16
    IN  [i \in 1..L |->
            ((x[((i - 1 + L - d) % L) + 1] % 2^(16 - r)) * 2^r)
                + (x[((i - 1 + 2 * L - d - 1) % L) + 1] \div 2^(16 - r))]

\* x.rotate_right(n), n a u32: bit k of x moves to bit (k - n) mod BITS.
rotate_right(x, n) ==
    LET L == Len(x)
        k == n % (16 * L)
        d == k \div 16
        r == k % 16
    IN  [i \in 1..L |->
            (x[((i - 1 + d) % L) + 1] \div 2^r)
                + ((x[((i - 1 + d + 1) % L) + 1] % 2^r) * 2^(16 - r))]

\* ToPrimitive::to_u32: None when the value does not fit in 32 bits.
to_u32(n) ==
    IF \E i \in 3..Len(n) : n[i] # 0 THEN None
    ELSE Some(<<n[1], IF Len(n) >= 2 THEN n[2] ELSE 0>>)

\* u % m on a u32 u, for a modulus m below 2^15.
rem_u32(u, m) == (((u[2] % m) * (Limb % m)) + (u[1] % m)) % m

\* Word::rotate_left_by(&self, n)
rotate_left_by(x, n) ==
    LET u == to_u32(n)
    IN  IF u.tag = "none" THEN Panic
        ELSE Ok(rotate_left(x, rem_u32(u.val, BITS(16 * Len(x)))))

\* Word::rotate_right_by(&self, n)
rotate_right_by(x, n) ==
    LET u == to_u32(n)
    IN  IF u.tag = "none" THEN Panic
        ELSE Ok(rotate_right(x, rem_u32(u.val, BITS(16 * Len(x)))))

\* ------------------------------------------------- HasPQ (magic_const.rs)

p(W) == CASE W = 16 -> <<\Hb7e1>>
          [] W = 32 -> <<\H5163, \Hb7e1>>
          [] W = 64 -> <<\H2a6b, \H8aed, \H5162, \Hb7e1>>

q(W) == CASE W = 16 -> <<\H9e37>>
          [] W = 32 -> <<\H79b9, \H9e37>>
          [] W = 64 -> <<\H7c15, \H7f4a, \H79b9, \H9e37>>

\* ------------------------------------------------------- Block (block.rs)

\* v[i] on a Vec: out of bounds unwinds.
Index(v, i) == IF i < Len(v) THEN Ok(v[i + 1]) ELSE Panic

\* One round of Block::encode: st is [tag, a, b].
encode_round(st, i, key_table) ==
    IF st.tag # "ok" THEN st
    ELSE LET ra == rotate_left_by(bitxor(st.a, st.b), st.b)
             ka == Index(key_table, 2 * i)
         IN  IF ra.tag # "ok" \/ ka.tag # "ok" THEN [st EXCEPT !.tag = "panic"]
             ELSE LET a  == wrapping_add(ra.val, ka.val)
                      rb == rotate_left_by(bitxor(st.b, a), a)
                      kb == Index(key_table, 2 * i + 1)
                  IN  IF rb.tag # "ok" \/ kb.tag # "ok" THEN [st EXCEPT !.tag = "panic"]
                      ELSE [tag |-> "ok", a |-> a, b |-> wrapping_add(rb.val, kb.val)]

\* A faulty Block::encode: the rounds run over 0..=r instead of 1..=r.
Block_encode_from0(block, ctx) ==
    LET key_table == ctx.expanded_key_table
        r  == ctx.number_of_rounds
        k0 == Index(key_table, 0)
        k1 == Index(key_table, 1)
    IN  IF k0.tag # "ok" \/ k1.tag # "ok" THEN Panic
        ELSE LET Round(st, i) == encode_round(st, i, key_table)
                 st0 == [tag |-> "ok", a |-> wrapping_add(block[1], k0.val),
                                       b |-> wrapping_add(block[2], k1.val)]
                 st  == ForRange(Round, st0, 0, r)
             IN  IF st.tag = "ok" THEN Ok(<<st.a, st.b>>) ELSE Panic

\* Block::encode(&self, ctx): block is <<a, b>>, ctx the RC5 instance.
Block_encode(block, ctx) ==
    LET key_table == ctx.expanded_key_table
        r  == ctx.number_of_rounds
        k0 == Index(key_table, 0)
        k1 == Index(key_table, 1)
    IN  IF k0.tag # "ok" \/ k1.tag # "ok" THEN Panic
        ELSE LET Round(st, i) == encode_round(st, i, key_table)
                 st0 == [tag |-> "ok", a |-> wrapping_add(block[1], k0.val),
                                       b |-> wrapping_add(block[2], k1.val)]
                 st  == ForRange(Round, st0, 1, r)
             IN  IF st.tag = "ok" THEN Ok(<<st.a, st.b>>) ELSE Panic

\* One round of Block::decode.
decode_round(st, i, key_table) ==
    IF st.tag # "ok" THEN st
    ELSE LET kb == Index(key_table, 2 * i + 1)
             rb == IF kb.tag = "ok" THEN rotate_right_by(wrapping_sub(st.b, kb.val), st.a)
                   ELSE Panic
         IN  IF rb.tag # "ok" THEN [st EXCEPT !.tag = "panic"]
             ELSE LET b  == bitxor(rb.val, st.a)
                      ka == Index(key_table, 2 * i)
                      ra == IF ka.tag = "ok" THEN rotate_right_by(wrapping_sub(st.a, ka.val), b)
                            ELSE Panic
                  IN  IF ra.tag # "ok" THEN [st EXCEPT !.tag = "panic"]
                      ELSE [tag |-> "ok", a |-> bitxor(ra.val, b), b |-> b]

\* Block::decode(&self, ctx).
Block_decode(block, ctx) ==
    LET key_table == ctx.expanded_key_table
        r  == ctx.number_of_rounds
        Round(st, i) == decode_round(st, i, key_table)
        st == ForRangeRev(Round, [tag |-> "ok", a |-> block[1], b |-> block[2]], 1, r)
        k1 == Index(key_table, 1)
        k0 == Index(key_table, 0)
    IN  IF st.tag # "ok" \/ k1.tag # "ok" \/ k0.tag # "ok" THEN Panic
        ELSE Ok(<<wrapping_sub(st.a, k0.val), wrapping_sub(st.b, k1.val)>>)

\* ------------------------------------------------- SecretKey (secret_key.rs)

MAX_KEY_LENGTH == 256

\* SecretKey::new(bytes).
SecretKey_new(bytes) ==
    IF Len(bytes) > MAX_KEY_LENGTH THEN Err("InvalidSecretKeyLength", Len(bytes))
    ELSE Ok(bytes)

\* thread_rng().fill_bytes(&mut data): every byte of data is overwritten by the
\* generator's output; rng names the output stream drawn.
fill_bytes(data, rng) == [i \in 1..Len(data) |-> (rng + 7 * i) % 256]

\* SecretKey::random(len): a vector of len bytes, filled by the generator.
SecretKey_random(len, rng) == Ok(fill_bytes([i \in 1..len |-> 0], rng))

\* ControlBlock::nominal(key); b is key.len() as u8.
ControlBlock_nominal(key) ==
    Ok([v |-> 16, w |-> 32, r |-> 16, b |-> Len(key) % 256, k |-> key])

Max(a, b) == IF a >= b THEN a ELSE b

\* W::from(byte): the byte as a word (Some for every supported width).
from_u8(byte, W) == WordOf(byte, W)

\* One iteration of the loop of SecretKey::to_words: st is [tag, words].
to_words_step(st, i, secret, W) ==
    IF st.tag # "ok" THEN st
    ELSE LET j == i \div BYTES(W)
             w == from_u8(secret[i + 1], W)
             o == Index(st.words, j)
         IN  IF o.tag # "ok" THEN [st EXCEPT !.tag = "panic"]
             ELSE [st EXCEPT !.words[j + 1] = wrapping_add(rotate_left(o.val, 8), w)]

\* SecretKey::to_words::<W>(&self).
to_words(secret, W) ==
    LET len   == Max(Len(secret), 1) \div BYTES(W)
        words == [k \in 1..len |-> zero(W)]
        Step(st, i) == to_words_step(st, i, secret, W)
        st    == ForRangeRev(Step, [tag |-> "ok", words |-> words], 0, Len(secret) - 1)
    IN  IF st.tag = "ok" THEN Ok(st.words) ELSE Panic

\* ------------------------------------- ExpandedKeyTable (expanded_key_table.rs)

MAX_NUMBER_OF_ROUNDS == 256

\* ExpandedKeyTable::setup(len).
setup(len, W) ==
    LET Step(st, i) ==
            [st EXCEPT !.key_table[i + 1] = wrapping_add(st.key_table[i], q(W))]
        t0 == [k \in 1..len |-> zero(W)]
    IN  IF len = 0 THEN Panic
        ELSE Ok(ForRange(Step, [tag |-> "ok", key_table |-> [t0 EXCEPT ![1] = p(W)]],
                         1, len - 1).key_table)

\* One iteration of the loop of ExpandedKeyTable::mixin: st is
\* [tag, key_table, key_words, a, b, i, j].
mixin_step(st) ==
    IF st.tag # "ok" THEN st
    ELSE LET ti == Index(st.key_table, st.i)
         IN  IF ti.tag # "ok" THEN [st EXCEPT !.tag = "panic"]
             ELSE LET a  == rotate_left(wrapping_add(wrapping_add(ti.val, st.a), st.b), 3)
                      lj == Index(st.key_words, st.j)
                      rb == IF lj.tag = "ok"
                            THEN rotate_left_by(wrapping_add(wrapping_add(lj.val, a), st.b),
                                                wrapping_add(a, st.b))
                            ELSE Panic
                  IN  IF rb.tag # "ok" THEN [st EXCEPT !.tag = "panic"]
                      ELSE [tag       |-> "ok",
                            key_table |-> [st.key_table EXCEPT ![st.i + 1] = a],
                            key_words |-> [st.key_words EXCEPT ![st.j + 1] = rb.val],
                            a         |-> a,
                            b         |-> rb.val,
                            i         |-> (st.i + 1) % Len(st.key_table),
                            j         |-> (st.j + 1) % Len(st.key_words)]

\* ExpandedKeyTable::mixin(&mut key_table, key_words): the table it leaves.
mixin(key_table, key_words, W) ==
    LET mix_steps == Max(Len(key_table), Len(key_words))
        Step(st, n) == mixin_step(st)
        st0 == [tag |-> "ok", key_table |-> key_table, key_words |-> key_words,
                a |-> zero(W), b |-> zero(W), i |-> 0, j |-> 0]
        st  == ForRange(Step, st0, 0, 3 * mix_steps - 1)
    IN  IF st.tag = "ok" THEN Ok(st.key_table) ELSE Panic

\* ExpandedKeyTable::new(&key, number_of_rounds).
\* A faulty ExpandedKeyTable::new: the table is set up and mixed first, the
\* round count is validated afterwards.
ExpandedKeyTable_new_late(key, number_of_rounds, W) ==
    LET key_table == setup(2 * (number_of_rounds + 1), W)
        key_words == to_words(key, W)
        mixed     == IF key_table.tag # "ok" \/ key_words.tag # "ok" THEN Panic
                     ELSE mixin(key_table.val, key_words.val, W)
    IN  IF mixed.tag # "ok" THEN mixed
        ELSE IF number_of_rounds > MAX_NUMBER_OF_ROUNDS
             THEN Err("InvalidNumberOfRounds", number_of_rounds)
             ELSE mixed

ExpandedKeyTable_new(key, number_of_rounds, W) ==
    IF number_of_rounds > MAX_NUMBER_OF_ROUNDS
    THEN Err("InvalidNumberOfRounds", number_of_rounds)
    ELSE LET key_table == setup(2 * (number_of_rounds + 1), W)
             key_words == to_words(key, W)
         IN  IF key_table.tag # "ok" \/ key_words.tag # "ok" THEN Panic
             ELSE mixin(key_table.val, key_words.val, W)

\* --------------------------------------------------- le_bytes.rs and rc5.rs

\* <W as FromLeBytes>::from_le_bytes on an array of BYTES bytes: byte k has
\* weight 256^k.
from_le_bytes(bytes) ==
    [i \in 1..(Len(bytes) \div 2) |-> bytes[2 * i - 1] + 256 * bytes[2 * i]]

\* <W as ToLeBytes>::to_le_bytes: byte k is (word / 256^k) mod 256.
to_le_bytes(word) ==
    [k \in 1..(2 * Len(word)) |->
        IF k % 2 = 1 THEN word[(k + 1) \div 2] % 256 ELSE word[k \div 2] \div 256]

\* slice.chunks(n): the last chunk may be shorter.
chunks(s, n) ==
    [k \in 1..((Len(s) + n - 1) \div n) |->
        SubSeq(s, n * (k - 1) + 1, IF n * k < Len(s) THEN n * k ELSE Len(s))]

RECURSIVE Flatten(_)
Flatten(ss) == IF ss = <<>> THEN <<>> ELSE Head(ss) \o Flatten(Tail(ss))

\* bytes_to_words::<W>: try_into().unwrap() unwinds on a short chunk.
bytes_to_words(bytes, W) ==
    LET cs == chunks(bytes, BYTES(W))
    IN  IF \E k \in 1..Len(cs) : Len(cs[k]) # BYTES(W) THEN Panic
        ELSE Ok([k \in 1..Len(cs) |-> from_le_bytes(cs[k])])

\* bytes_to_blocks::<W>: Block::from_words reads ws[0] and ws[1].
bytes_to_blocks(bytes, W) ==
    LET ws == bytes_to_words(bytes, W)
    IN  IF ws.tag # "ok" THEN Panic
        ELSE LET cs == chunks(ws.val, 2)
             IN  IF \E k \in 1..Len(cs) : Len(cs[k]) < 2 THEN Panic
                 ELSE Ok([k \in 1..Len(cs) |-> <<cs[k][1], cs[k][2]>>])

blocks_to_words(blocks) == Flatten(blocks)

blocks_to_bytes(blocks) ==
    LET ws == blocks_to_words(blocks)
    IN  Flatten([k \in 1..Len(ws) |-> to_le_bytes(ws[k])])

\* RC5::new_with_rounds(secret_key, number_of_rounds).
new_with_rounds(secret_key, number_of_rounds, W) ==
    LET sk == SecretKey_new(secret_key)
    IN  IF sk.tag # "ok" THEN sk
        ELSE LET expanded_key_table == ExpandedKeyTable_new(sk.val, number_of_rounds, W)
             IN  IF expanded_key_table.tag # "ok" THEN expanded_key_table
                 ELSE Ok([expanded_key_table |-> expanded_key_table.val,
                          number_of_rounds   |-> number_of_rounds])

\* RC5::new(secret_key).
new(secret_key, W) == new_with_rounds(secret_key, ROUNDS(W), W)

\* A faulty RC5::encode: each block is xored with the block before it (the
\* blocks chain).
encode_chained(self, plaintext, W) ==
    LET bs == bytes_to_blocks(plaintext, W)
    IN  IF bs.tag # "ok" THEN Panic
        ELSE LET In(k) == IF k = 1 THEN bs.val[k]
                          ELSE <<bitxor(bs.val[k][1], bs.val[k - 1][1]),
                                 bitxor(bs.val[k][2], bs.val[k - 1][2])>>
                 blocks == [k \in 1..Len(bs.val) |-> Block_encode(In(k), self)]
             IN  IF \E k \in 1..Len(blocks) : blocks[k].tag # "ok" THEN Panic
                 ELSE Ok(blocks_to_bytes([k \in 1..Len(blocks) |-> blocks[k].val]))

\* RC5::encode(&self, plaintext).
encode(self, plaintext, W) ==
    LET bs == bytes_to_blocks(plaintext, W)
    IN  IF bs.tag # "ok" THEN Panic
        ELSE LET blocks == [k \in 1..Len(bs.val) |-> Block_encode(bs.val[k], self)]
             IN  IF \E k \in 1..Len(blocks) : blocks[k].tag # "ok" THEN Panic
                 ELSE Ok(blocks_to_bytes([k \in 1..Len(blocks) |-> blocks[k].val]))

\* RC5::decode(&self, ciphertext).
decode(self, ciphertext, W) ==
    LET bs == bytes_to_blocks(ciphertext, W)
    IN  IF bs.tag # "ok" THEN Panic
        ELSE LET blocks == [k \in 1..Len(bs.val) |-> Block_decode(bs.val[k], self)]
             IN  IF \E k \in 1..Len(blocks) : blocks[k].tag # "ok" THEN Panic
                 ELSE Ok(blocks_to_bytes([k \in 1..Len(blocks) |-> blocks[k].val]))

\* ------------------------------------------------------------ sample inputs

\* Words of width W: 0, 1, 12, a value above the bit width, the top bit, all
\* ones, P, and (u64 only) values from 2^32 up.
Bit(k, W) == [i \in 1..(BITS(W) \div 16) |-> IF i = (k \div 16) + 1 THEN 2^(k % 16) ELSE 0]
ones(W) == [i \in 1..(BITS(W) \div 16) |-> Limb - 1]

SampleWords(W) ==
    {zero(W), WordOf(1, W), ones(W), p(W)}
        \cup (IF W = 64 THEN {Bit(32, W)} ELSE {Bit(W - 1, W)})

RotAmounts(W) ==
    {WordOf(k, W) : k \in {0, 1, 12, W - 1, W, W + 12, 65535}}
        \cup {ones(W), p(W)}
        \cup (IF W >= 32 THEN {WordOf(12 + 64 * 1000000, W)} ELSE {})
        \cup (IF W = 64 THEN {Bit(32, W), wrapping_add(Bit(32, W), WordOf(12, W)), Bit(63, W)}
              ELSE {})

\* Keys: byte i of the key of length n and seed s is (s + i) mod 256; seed 0
\* and length 16 is the key 0x00..0x0F of the crate's tests.
KeyOf(n, s) == [i \in 1..n |-> (s + i - 1) % 256]
SmallKeys == {KeyOf(n, 200) : n \in 0..MaxKeyLen} \cup {KeyOf(16, 0)}
SmallRounds(W) == (0..MaxRounds) \cup {ROUNDS(W)}

\* (key, rounds) pairs: the small ones and the four corners of the boundary.
\* Key lengths around the limits: the small ones, 255 (the largest a u8
\* holds), MAX_KEY_LENGTH and one more.
KeyLens ==
    (0..MaxKeyLen) \cup {MAX_KEY_LENGTH - 1, MAX_KEY_LENGTH, MAX_KEY_LENGTH + 1}

BoundaryKeys == {KeyOf(n, s) : n \in KeyLens, s \in {0, 200}}

RngStreams == {0, 200}

KeyRounds(W) ==
    (SmallKeys \X SmallRounds(W))
        \cup (SmallKeys \X {MAX_NUMBER_OF_ROUNDS + 1})
        \cup ({KeyOf(n, 0) : n \in {MAX_KEY_LENGTH, MAX_KEY_LENGTH + 1}}
                \X {MAX_NUMBER_OF_ROUNDS, MAX_NUMBER_OF_ROUNDS + 1})

\* Round-key tables of t words for Block::encode / Block::decode called directly:
\* all zero, all ones, the P/Q progression, and small words.
SampleTables(t, W) ==
    {[k \in 1..t |-> zero(W)], [k \in 1..t |-> ones(W)], setup(t, W).val,
     [k \in 1..t |-> WordOf(k, W)]}

SampleCtxs(W) ==
    UNION {{[expanded_key_table |-> tb, number_of_rounds |-> r] :
                tb \in SampleTables(2 * (r + 1), W)} : r \in 0..MaxRounds}

SampleBlocks(W) == SampleWords(W) \X SampleWords(W)

\* Byte buffers: up to MaxBlocks blocks, each all zero or a byte ramp, and one
\* buffer of half a block.
BlockBytes(W) == {[i \in 1..(2 * BYTES(W)) |-> 0],
                  [i \in 1..(2 * BYTES(W)) |-> (37 * i + 200) % 256]}

RECURSIVE BuffersOf(_, _)
BuffersOf(n, W) ==
    IF n = 0 THEN {<<>>}
    ELSE {b \o x : b \in BlockBytes(W), x \in BuffersOf(n - 1, W)}

SampleBuffers(W) ==
    UNION {BuffersOf(n, W) : n \in 0..MaxBlocks} \cup {[i \in 1..BYTES(W) |-> 7]}

\* ------------------------------------------------------------- state machine

VARIABLES
    width,    \* the type parameter W of this instantiation: 16, 32 or 64
    cipher,   \* the RC5<W> instance the client holds: None, or Some(instance)
    call,     \* the last call made: [op, arg, ret]
    prev,     \* the call before it
    ncalls    \* encode/decode calls made on the instance

vars == <<width, cipher, call, prev, ncalls>>

NoCall == [op |-> "none", arg |-> <<>>, ret |-> Ok(<<>>)]

Fresh == call.op = "none"

Init ==
    /\ width \in Widths
    /\ cipher = None
    /\ call = NoCall
    /\ prev = NoCall
    /\ ncalls = 0

Record(op, arg, ret) ==
    /\ call' = [op |-> op, arg |-> arg, ret |-> ret]
    /\ prev' = call

\* Word::rotate_left_by(&x, n)
RotateLeftBy ==
    /\ Fresh
    /\ \E x \in SampleWords(width), n \in RotAmounts(width) :
          Record("rotate_left_by", [x |-> x, n |-> n], rotate_left_by(x, n))
    /\ UNCHANGED <<width, cipher, ncalls>>

\* Word::rotate_right_by(&x, n)
RotateRightBy ==
    /\ Fresh
    /\ \E x \in SampleWords(width), n \in RotAmounts(width) :
          Record("rotate_right_by", [x |-> x, n |-> n], rotate_right_by(x, n))
    /\ UNCHANGED <<width, cipher, ncalls>>

\* SecretKey::new(bytes)
SecretKeyNew ==
    /\ Fresh
    /\ \E bytes \in BoundaryKeys :
          Record("SecretKey_new", [key |-> bytes], SecretKey_new(bytes))
    /\ UNCHANGED <<width, cipher, ncalls>>

\* SecretKey::random(len)
SecretKeyRandom ==
    /\ Fresh
    /\ \E len \in KeyLens, rng \in RngStreams :
          Record("SecretKey_random", [len |-> len], SecretKey_random(len, rng))
    /\ UNCHANGED <<width, cipher, ncalls>>

\* ControlBlock::nominal(key)
ControlBlockNominal ==
    /\ Fresh
    /\ \E key \in BoundaryKeys :
          Record("ControlBlock_nominal", [key |-> key], ControlBlock_nominal(key))
    /\ UNCHANGED <<width, cipher, ncalls>>

\* SecretKey::new(bytes).unwrap().to_words::<W>()
ToWords ==
    /\ Fresh
    /\ \E kr \in KeyRounds(width) :
          /\ SecretKey_new(kr[1]).tag = "ok"
          /\ Record("to_words", [key |-> kr[1]], to_words(kr[1], width))
    /\ UNCHANGED <<width, cipher, ncalls>>

\* ExpandedKeyTable::<W>::new(&key, number_of_rounds) on a key made by SecretKey::new
ExpandedKeyTableNew ==
    /\ Fresh
    /\ \E kr \in KeyRounds(width) :
          /\ SecretKey_new(kr[1]).tag = "ok"
          /\ Record("ExpandedKeyTable_new", [key |-> kr[1], r |-> kr[2]],
                    ExpandedKeyTable_new(kr[1], kr[2], width))
    /\ UNCHANGED <<width, cipher, ncalls>>

\* RC5::<W>::new_with_rounds(secret_key, number_of_rounds)
NewWithRounds ==
    /\ Fresh
    /\ \E kr \in KeyRounds(width) :
          LET res == new_with_rounds(kr[1], kr[2], width)
          IN  /\ Record("new_with_rounds", [key |-> kr[1], r |-> kr[2]], res)
              /\ cipher' = IF res.tag = "ok" THEN Some(res.val) ELSE None
    /\ UNCHANGED <<width, ncalls>>

\* RC5::<W>::new(secret_key)
New ==
    /\ Fresh
    /\ \E key \in SmallKeys :
          LET res == new(key, width)
          IN  /\ Record("new", [key |-> key], res)
              /\ cipher' = IF res.tag = "ok" THEN Some(res.val) ELSE None
    /\ UNCHANGED <<width, ncalls>>

\* Block::new(a, b).encode(&ctx), with a context built inside the crate
BlockEncode ==
    /\ Fresh
    /\ \E block \in SampleBlocks(width), ctx \in SampleCtxs(width) :
          Record("Block_encode", [block |-> block, ctx |-> ctx], Block_encode(block, ctx))
    /\ UNCHANGED <<width, cipher, ncalls>>

\* Block::decode(&ctx): on a sample block, or on the block the last
\* Block::encode returned, with the same context
BlockDecode ==
    /\ \/ /\ Fresh
          /\ \E block \in SampleBlocks(width), ctx \in SampleCtxs(width) :
                Record("Block_decode", [block |-> block, ctx |-> ctx],
                       Block_decode(block, ctx))
       \/ /\ call.op = "Block_encode"
          /\ call.ret.tag = "ok"
          /\ Record("Block_decode", [block |-> call.ret.val, ctx |-> call.arg.ctx],
                    Block_decode(call.ret.val, call.arg.ctx))
    /\ UNCHANGED <<width, cipher, ncalls>>

\* The buffers a client passes to the instance: a sample buffer first, then
\* the output of its last call.
Inputs ==
    IF ncalls = 0 THEN SampleBuffers(width)
    ELSE IF call.ret.tag = "ok" THEN {call.ret.val} ELSE {}

\* A faulty cipher.encode(plaintext): the call takes the instance mutably and
\* advances table[0] after use.
Encode_mutating ==
    /\ cipher.tag = "some"
    /\ cipher.val.number_of_rounds <= MaxUsedRounds
    /\ ncalls < MaxCalls
    /\ \E plaintext \in Inputs :
          Record("encode", [buf |-> plaintext], encode(cipher.val, plaintext, width))
    /\ ncalls' = ncalls + 1
    /\ cipher' = [cipher EXCEPT !.val.expanded_key_table[1] = wrapping_add(@, q(width))]
    /\ UNCHANGED width

\* cipher.encode(plaintext)
Encode ==
    /\ cipher.tag = "some"
    /\ cipher.val.number_of_rounds <= MaxUsedRounds
    /\ ncalls < MaxCalls
    /\ \E plaintext \in Inputs :
          Record("encode", [buf |-> plaintext], encode(cipher.val, plaintext, width))
    /\ ncalls' = ncalls + 1
    /\ UNCHANGED <<width, cipher>>

\* cipher.decode(ciphertext)
Decode ==
    /\ cipher.tag = "some"
    /\ cipher.val.number_of_rounds <= MaxUsedRounds
    /\ ncalls < MaxCalls
    /\ \E ciphertext \in Inputs :
          Record("decode", [buf |-> ciphertext], decode(cipher.val, ciphertext, width))
    /\ ncalls' = ncalls + 1
    /\ UNCHANGED <<width, cipher>>

Next ==
    \/ RotateLeftBy
    \/ RotateRightBy
    \/ SecretKeyNew
    \/ SecretKeyRandom
    \/ ControlBlockNominal
    \/ ToWords
    \/ ExpandedKeyTableNew
    \/ NewWithRounds
    \/ New
    \/ BlockEncode
    \/ BlockDecode
    \/ Encode
    \/ Decode

Spec == Init /\ [][Next]_vars

\* ------------------------------------------------------------------ claims

\* What the claims compare the code with: the value of a whole word modulo
\* m, the rotation by n mod BITS, the little-endian packing of a key and the
\* key schedule of the RC5 paper.
RECURSIVE RefRemFrom(_, _, _)
RefRemFrom(n, i, m) ==
    IF i > Len(n) THEN 0
    ELSE ((n[i] % m) + (Limb % m) * RefRemFrom(n, i + 1, m)) % m
RefRem(n, m) == RefRemFrom(n, 1, m)

RefRotl(x, n) == rotate_left(x, RefRem(n, 16 * Len(x)))
RefRotr(x, n) == rotate_right(x, RefRem(n, 16 * Len(x)))

RefKeyWords(key, W) ==
    LET u == BYTES(W)
        c == Max(Len(key) \div u, 1)
        Byte(i) == IF i <= Len(key) THEN key[i] ELSE 0
    IN  [j \in 1..c |-> from_le_bytes([k \in 1..u |-> Byte((j - 1) * u + k)])]

RefMixStep(st) ==
    LET A == rotate_left(wrapping_add(wrapping_add(st.S[st.i + 1], st.A), st.B), 3)
        B == RefRotl(wrapping_add(wrapping_add(st.L[st.j + 1], A), st.B),
                     wrapping_add(A, st.B))
    IN  [tag |-> "ok", S |-> [st.S EXCEPT ![st.i + 1] = A],
         L |-> [st.L EXCEPT ![st.j + 1] = B], A |-> A, B |-> B,
         i |-> (st.i + 1) % Len(st.S), j |-> (st.j + 1) % Len(st.L)]

RefSchedule(key, r, W) ==
    LET t  == 2 * (r + 1)
        L  == RefKeyWords(key, W)
        S0 == [i \in 1..t |-> IF i = 1 THEN p(W) ELSE zero(W)]
        Fill(st, i) == [st EXCEPT !.S[i + 1] = wrapping_add(st.S[i], q(W))]
        S  == ForRange(Fill, [tag |-> "ok", S |-> S0], 1, t - 1).S
        Step(st, n) == RefMixStep(st)
    IN  ForRange(Step, [tag |-> "ok", S |-> S, L |-> L, A |-> zero(W), B |-> zero(W),
                        i |-> 0, j |-> 0], 1, 3 * Max(t, Len(L))).S

Aligned(buf) == Len(buf) % (2 * BYTES(width)) = 0
NBlocks(buf) == Len(buf) \div (2 * BYTES(width))
BlockAt(buf, k) == SubSeq(buf, 2 * BYTES(width) * (k - 1) + 1, 2 * BYTES(width) * k)

\* C1: for every width, round count, table of 2*(r+1) words and block,
\* Block::encode and Block::decode both return, and decoding the encoded block
\* gives the original block.
C1_BlockRoundTrip ==
    /\ call.op \in {"Block_encode", "Block_decode"} => call.ret.tag = "ok"
    /\ (call.op = "Block_decode" /\ prev.op = "Block_encode")
          => call.ret.val = prev.arg.block

\* C2: for every width, round count 0..32 and key of 0..64 bytes,
\* new_with_rounds returns a cipher, and on every block-aligned buffer x
\* decode(encode(x)) = x.
C2_CipherRoundTrip ==
    /\ (call.op = "new_with_rounds" /\ Len(call.arg.key) <= 64 /\ call.arg.r <= 32)
          => call.ret.tag = "ok"
    /\ (call.op \in {"encode", "decode"} /\ Aligned(call.arg.buf)) => call.ret.tag = "ok"
    /\ (call.op = "decode" /\ prev.op = "encode" /\ Aligned(prev.arg.buf))
          => call.ret.val = prev.arg.buf

\* C3: new_with_rounds(key, r) succeeds iff len(key) <= 256 and r <= 256; a key
\* of 257 bytes is rejected with InvalidSecretKeyLength, a round count of 257
\* with InvalidNumberOfRounds.
C3_ConstructionBoundaries ==
    call.op = "new_with_rounds" =>
        /\ call.ret.tag = "ok"
              <=> (Len(call.arg.key) <= 256 /\ call.arg.r <= 256)
        /\ Len(call.arg.key) = 257 => call.ret.tag = "InvalidSecretKeyLength"
        /\ (Len(call.arg.key) <= 256 /\ call.arg.r = 257)
              => call.ret.tag = "InvalidNumberOfRounds"

\* C4: key expansion fails with the invalid-number-of-rounds condition for every
\* round count outside 0..255, r = 256 included, and produces no table.
C4_RoundsUpTo255 ==
    (call.op = "ExpandedKeyTable_new" /\ call.arg.r > 255)
        => call.ret.tag = "InvalidNumberOfRounds"

\* C5: for every width and all words x, n, rotate_left_by(x, n) returns x rotated
\* left by n mod w bits and rotate_right_by(x, n) returns x rotated right by
\* n mod w bits; the call never fails.
C5_RotateModuloWidth ==
    /\ call.op = "rotate_left_by"
          => (call.ret.tag = "ok" /\ call.ret.val = RefRotl(call.arg.x, call.arg.n))
    /\ call.op = "rotate_right_by"
          => (call.ret.tag = "ok" /\ call.ret.val = RefRotr(call.arg.x, call.arg.n))

\* C6: to_words on the empty key returns exactly one word, which is zero.
C6_EmptyKeyOneZeroWord ==
    (call.op = "to_words" /\ call.arg.key = <<>>)
        => (call.ret.tag = "ok" /\ call.ret.val = <<zero(width)>>)

\* C7: to_words on a key of 1..256 bytes returns c = max(len/u, 1) words, never
\* indexes outside them, and word j is the little-endian value of key bytes
\* j*u .. j*u+u-1.
C7_KeyToWords ==
    (call.op = "to_words" /\ Len(call.arg.key) >= 1)
        => /\ call.ret.tag = "ok"
           /\ Len(call.ret.val) = Max(Len(call.arg.key) \div BYTES(width), 1)
           /\ call.ret.val = RefKeyWords(call.arg.key, width)

\* C8: for every valid key and round count, ExpandedKeyTable::new returns the
\* t = 2*(r+1) words of the reference key schedule (P/Q progression, then
\* 3*max(t, c) mixing iterations).
C8_KeySchedule ==
    (call.op = "ExpandedKeyTable_new" /\ call.arg.r <= MAX_NUMBER_OF_ROUNDS)
        => /\ call.ret.tag = "ok"
           /\ Len(call.ret.val) = 2 * (call.arg.r + 1)
           /\ call.ret.val = RefSchedule(call.arg.key, call.arg.r, width)

\* C9: with r = 0, Block::encode returns (A + table[0], B + table[1]) and
\* Block::decode returns (A - table[0], B - table[1]), modulo 2^w, on a table
\* that holds entries 0 and 1 only.
C9_ZeroRounds ==
    (call.op \in {"Block_encode", "Block_decode"} /\ call.arg.ctx.number_of_rounds = 0)
        => LET A == call.arg.block[1]
               B == call.arg.block[2]
               table == call.arg.ctx.expanded_key_table
           IN  /\ Len(table) = 2
               /\ call.ret.tag = "ok"
               /\ call.op = "Block_encode"
                     => call.ret.val = <<wrapping_add(A, table[1]), wrapping_add(B, table[2])>>
               /\ call.op = "Block_decode"
                     => call.ret.val = <<wrapping_sub(A, table[1]), wrapping_sub(B, table[2])>>

\* C9 witness: a zero-round encode of a u64 block whose second word is 2^32 or
\* more (a rotation by it would be refused) has returned.
C9_Witness ==
    /\ call.op = "Block_encode"
    /\ call.arg.ctx.number_of_rounds = 0
    /\ width = 64
    /\ call.arg.block[2][3] # 0
    /\ call.ret.tag = "ok"

\* C10: on a block-aligned buffer, RC5::encode and RC5::decode return a buffer
\* of the same length whose k-th block is the transform of the k-th input block
\* alone, and the transform of x ++ y is the transform of x followed by that of y.
C10_BlocksIndependent ==
    (call.op \in {"encode", "decode"} /\ Aligned(call.arg.buf))
        => LET buf == call.arg.buf
               T(x) == IF call.op = "encode" THEN encode(cipher.val, x, width)
                       ELSE decode(cipher.val, x, width)
           IN  /\ call.ret.tag = "ok"
               /\ Len(call.ret.val) = Len(buf)
               /\ \A k \in 1..NBlocks(buf) :
                     BlockAt(call.ret.val, k) = T(BlockAt(buf, k)).val
               /\ \A k \in 0..NBlocks(buf) :
                     LET cut == 2 * BYTES(width) * k
                     IN  call.ret.val = T(SubSeq(buf, 1, cut)).val
                                          \o T(SubSeq(buf, cut + 1, Len(buf))).val

\* C10 witness: an encode of two different blocks has returned.
C10_Witness ==
    /\ call.op = "encode"
    /\ NBlocks(call.arg.buf) = 2
    /\ Aligned(call.arg.buf)
    /\ BlockAt(call.arg.buf, 1) # BlockAt(call.arg.buf, 2)
    /\ cipher.val.number_of_rounds >= 1
    /\ call.ret.tag = "ok"

\* C11: once an instance is constructed, every encode or decode call leaves its
\* round-key table and round count as they were, and returns what the same
\* call returns on the instance as the constructor returned it (the call
\* before, or the one before that).
Transform(op, self, buf) ==
    IF op = "encode" THEN encode(self, buf, width) ELSE decode(self, buf, width)

C11_InstanceImmutable ==
    [][cipher.tag = "some" =>
          /\ cipher' = cipher
          /\ call'.op \in {"encode", "decode"}
          /\ call.op \in {"new_with_rounds", "new"}
                => call'.ret = Transform(call'.op, call.ret.val, call'.arg.buf)
          /\ prev.op \in {"new_with_rounds", "new"}
                => call'.ret = Transform(call'.op, prev.ret.val, call'.arg.buf)]_vars

\* C11 witness: a decode has followed an encode on one instance, and both
\* returned.
C11_Witness ==
    /\ cipher.tag = "some"
    /\ ncalls = 2
    /\ prev.op = "encode"
    /\ call.op = "decode"
    /\ call.ret.tag = "ok"
    /\ cipher.val.number_of_rounds >= 1

\* C12: RC5::new_with_rounds validates before it expands: a key longer than
\* 256 bytes returns InvalidSecretKeyLength(len), otherwise a round count above
\* 256 returns InvalidNumberOfRounds(r); in both cases no step of the key
\* expansion has run (none of its panics is seen) and no instance exists; when
\* both arguments are invalid the key length error wins.
C12_ValidationFirst ==
    (call.op = "new_with_rounds"
        /\ (Len(call.arg.key) > 256 \/ call.arg.r > 256))
    =>  /\ cipher = None
        /\ call.ret = IF Len(call.arg.key) > 256
                      THEN Err("InvalidSecretKeyLength", Len(call.arg.key))
                      ELSE Err("InvalidNumberOfRounds", call.arg.r)

\* C12 witness: a call with both arguments invalid has returned, and so has a
\* call with too many rounds whose key the expansion cannot take.
C12_Witness ==
    /\ call.op = "new_with_rounds"
    /\ \/ /\ Len(call.arg.key) = 257
          /\ call.arg.r = 257
          /\ call.ret.tag = "InvalidSecretKeyLength"
       \/ /\ Len(call.arg.key) = 0
          /\ call.arg.r = 257
          /\ call.ret.tag = "InvalidNumberOfRounds"

\* C13: every SecretKey that a constructor returns, SecretKey::new or
\* SecretKey::random, holds at most 256 bytes.
C13_KeyAtMost256 ==
    (call.op \in {"SecretKey_new", "SecretKey_random"} /\ call.ret.tag = "ok")
        => Len(call.ret.val) <= 256

\* C14: for a key of 0 to 256 bytes, ControlBlock::nominal(key) has v = 0x10,
\* w = 32, r = 16, k = key and b = the number of bytes of k.
C14_NominalFields ==
    (call.op = "ControlBlock_nominal" /\ Len(call.arg.key) <= 256)
        => /\ call.ret.tag = "ok"
           /\ call.ret.val.v = 16
           /\ call.ret.val.w = 32
           /\ call.ret.val.r = 16
           /\ call.ret.val.k = call.arg.key
           /\ call.ret.val.b = Len(call.ret.val.k)

====
